---- MODULE Spec2Model ----
(***************************************************************************)
(* A model of gatco_sqlalchemy (src/gatco_sqlalchemy/__init__.py): the     *)
(* per-application engine cache (_EngineConnector, _SQLAlchemyState,       *)
(* SQLAlchemy.get_engine), the task-scoped session registry               *)
(* (create_scoped_session) and the response hook (shutdown_session).       *)
(*                                                                         *)
(* Python values are modelled as strings: None is "None", booleans are     *)
(* "True" / "False", numbers are their decimal text.  Objects (state       *)
(* entries, connectors, engines, sessions) are positions in the sequence   *)
(* of all objects of their kind ever constructed; 0 is "no object".        *)
(***************************************************************************)
EXTENDS Integers, Sequences, FiniteSets, TLC

VARIABLES
    config,      \* app.config (the SQLALCHEMY_* keys)
    stateReg,    \* app.extensions['sqlalchemy']: id of the _SQLAlchemyState, 0 if absent
    states,      \* _SQLAlchemyState objects: states[s] is s.connectors (bind -> connector id)
    conns,       \* _EngineConnector objects
    engines,     \* pool handles constructed by sqlalchemy.create_engine
    engineLock,  \* SQLAlchemy._engine_lock: the thread holding it, or NoThread
    changes,     \* number of configuration writes made after construction
    pc,          \* per thread: position inside SQLAlchemy.get_engine
    tbind,       \* per thread: the bind argument
    tstate,      \* per thread: local `state`
    tconn,       \* per thread: local `connector`
    tpair,       \* per thread: locals (uri, echo) of _EngineConnector.get_engine
    overlap,     \* per thread: the call started while another call was in progress
    ret,         \* per thread: outcome of the last finished call
    seen,        \* per (state entry, bind): the last handle a call returned, and its pair
                 \* (history)
    registry,    \* scoped_session's registry: scope key -> session id, 0 if absent
    sessions,    \* SignallingSession objects
    db,          \* the database: the requests whose modifications are committed
    requests,    \* number of requests started
    rpc,         \* per task: position in the request
    rid,         \* per task: the request it serves
    handlerExc,  \* per task: what the handler raised, or None
    caught,      \* per task: what the `except:` of shutdown_session caught, or None
    hookExc,     \* per task: what shutdown_session raised to the framework, or None
    hookLog,     \* per task: the session methods shutdown_session called, in order
    hookCommit,  \* per task: SQLALCHEMY_COMMIT_ON_RESPONSE as shutdown_session read it
    lastGot,     \* per task: the session its last access returned, 0 after a remove
    lastGone,    \* per task: the session its last remove dropped (history)
    use_native_unicode,  \* SQLAlchemy.use_native_unicode, as given to the constructor
    asked,       \* app.config as the application handed it to the last init_app (history)
    tables,      \* Model.metadata.tables: declared table -> info.get('bind_key'), or Unset
    schema,      \* the databases: pairs <<store, table>> of the tables that exist
    out          \* the outcome of the last call made from outside a request

\* ---------------------------------------------------------------- bounds

MaxInits == 1      \* init_app calls (one caller)
MaxChanges == 2    \* configuration writes after init_app (one caller)
MaxRaces == 2      \* configuration writes after init_app (concurrent callers)
MaxRequests == 2   \* requests served
MaxTweaks == 1     \* configuration writes after init_app (while serving requests)

\* ----------------------------------------------------------- Python values

None == "None"
Unset == "<unset>"

\* Python truthiness of a configuration value.
Truthy(v) == v \notin {None, "False", "0", ""}

\* `a or b`
Or(a, b) == IF Truthy(a) THEN a ELSE b

MemURI == "sqlite:///:memory:"
FileURI == "sqlite:///app.db"
MySQLURI == "mysql://db/app"

URIs == {MemURI, FileURI}

\* sqlalchemy.engine.make_url: the parts of the URL the adapter reads.
make_url(uri) ==
    CASE uri = MemURI -> [drivername |-> "sqlite", database |-> ":memory:"]
      [] uri = FileURI -> [drivername |-> "sqlite", database |-> "app.db"]
      [] uri = MySQLURI -> [drivername |-> "mysql", database |-> "app"]
      [] OTHER -> [drivername |-> "invalid", database |-> None]

BindArgs == {None, "reporting"}

\* Every bind identifier: the primary (None) and the names a table or a
\* configuration may carry.
BindKeys == {None, "reporting", "audit"}
Threads == {"th1", "th2"}
NoThread == "nobody"
Tasks == {"task1", "task2"}
MainThread == "MainThread"
ScopeKeys == Tasks \cup {MainThread}

\* SQLALCHEMY_BINDS: a mapping kept in declaration order.  None and the empty
\* mapping are both <<>>: every reader takes `config.get(...) or ()`.
BindMaps == {<<>>} \cup { <<[name |-> "reporting", uri |-> u]>> : u \in URIs }

BindNames(binds) == { binds[i].name : i \in 1..Len(binds) }

BindURI(binds, b) == binds[CHOOSE i \in 1..Len(binds) : binds[i].name = b].uri

\* ------------------------------------------------------- _EngineConnector

\* A message that does not tell which bind was asked for.
BindUnnamed(bind) == "AssertionError: Bind is not specified"

\* _EngineConnector.get_uri, line 105: the message of the failed assertion
\* carries the repr of the bind.
BindNotSpecified(bind) ==
    CASE bind = "reporting" -> "AssertionError: Bind 'reporting' is not specified"
      [] bind = "audit" -> "AssertionError: Bind 'audit' is not specified"
      [] OTHER -> "AssertionError: Bind None is not specified"

OptionError == "RuntimeError: SQLite in memory database with an empty queue"
NotRegistered == "AssertionError: extension was not registered"
NoExtensions == "AttributeError: no attribute 'extensions'"

\* A get_state that raises nothing for an application never set up.
GetStateSilent == {None}

\* get_state for an application init_app never saw: the assertion fails, or,
\* when the application object has no `extensions` attribute at all (init_app,
\* line 185, provides for that), the attribute lookup does.
GetStateErrors == {NotRegistered, NoExtensions}

\* _EngineConnector.get_uri
get_uri(cfg, bind) ==
    IF bind = None
    THEN [err |-> None, uri |-> cfg.uri]
    ELSE IF bind \in BindNames(cfg.binds)
         THEN [err |-> None, uri |-> BindURI(cfg.binds, bind)]
         ELSE [err |-> BindNotSpecified(bind), uri |-> None]

NoOptions ==
    [pool_size |-> Unset, pool_recycle |-> Unset, poolclass |-> Unset,
     check_same_thread |-> Unset, charset |-> Unset, echo |-> Unset,
     use_native_unicode |-> Unset]

\* SQLAlchemy.apply_pool_defaults (the pool_size key; the timeout, recycle and
\* overflow keys are copied by the same rule and read by nothing else).
apply_pool_defaults(cfg, options) ==
    IF cfg.pool_size # None
    THEN [options EXCEPT !.pool_size = cfg.pool_size]
    ELSE options

\* SQLAlchemy.apply_driver_hacks, lines 232-236: the application's setting,
\* the adapter's when that is None; a false one is passed on.
native_unicode(cfg, options) ==
    IF ~Truthy(IF cfg.unu = None THEN use_native_unicode ELSE cfg.unu)
    THEN [options EXCEPT !.use_native_unicode = "False"]
    ELSE options

\* SQLAlchemy.apply_driver_hacks, lines 210-230: the driver's defaults.
driver_defaults(cfg, info, options) ==
    IF info.drivername = "mysql"
    THEN [err |-> None,
          options |-> [options EXCEPT
              !.charset = "utf8",
              !.pool_size = IF @ = Unset THEN "10" ELSE @,
              !.pool_recycle = IF @ = Unset THEN "7200" ELSE @]]
    ELSE IF info.drivername = "sqlite"
    THEN IF info.database \in {None, "", ":memory:"}
         THEN [err |-> IF options.pool_size = "0" THEN OptionError ELSE None,
               options |-> [options EXCEPT !.poolclass = "StaticPool",
                                           !.check_same_thread = "False"]]
         ELSE IF options.pool_size \in {Unset, "0"}
              THEN [err |-> None, options |-> [options EXCEPT !.poolclass = "NullPool"]]
              ELSE [err |-> None, options |-> options]
    ELSE [err |-> None, options |-> options]

\* The native-unicode step runs unless the driver step has raised.
WithUnicode(cfg, r) ==
    IF r.err # None THEN r ELSE [err |-> None, options |-> native_unicode(cfg, r.options)]

\* SQLAlchemy.apply_driver_hacks
apply_driver_hacks(cfg, info, options) == WithUnicode(cfg, driver_defaults(cfg, info, options))

\* _EngineConnector.get_engine, lines 114-119: the options create_engine gets.
EngineOptions(cfg, uri, echo) ==
    LET hacked == apply_driver_hacks(cfg, make_url(uri), apply_pool_defaults(cfg, NoOptions))
    IN  [err |-> hacked.err,
         options |-> IF Truthy(echo)
                     THEN [hacked.options EXCEPT !.echo = echo]
                     ELSE hacked.options]

\* A comparison that never finds the recorded pair.
ConnectedNever(pair, connected_for) == FALSE

\* A comparison that looks at the URI only.
ConnectedForURI(pair, connected_for) ==
    connected_for # <<>> /\ pair[1] = connected_for[1]

\* _EngineConnector.get_engine, line 112: the cached handle is still valid.
ConnectedFor(pair, connected_for) == pair = connected_for

\* _EngineConnector.__init__ (state is history: the entry the connector was
\* made for).
NewConnector(s, bind) ==
    [bind |-> bind, engine |-> 0, connected_for |-> <<>>, lock |-> NoThread, state |-> s]

\* ------------------------------------------------------------- init_app

\* The configuration an application may carry before init_app.
UserConfigs ==
    [uri : {None}, binds : {<<>>, <<[name |-> "reporting", uri |-> MemURI]>>},
     echo : {None}, pool_size : {None, "0"}, commit : {None, "True"}, unu : {None}]

\* SQLAlchemy.init_app, lines 174-183: the defaults written back to app.config.
Defaulted(cfg) ==
    [uri |-> Or(cfg.uri, MemURI),
     binds |-> cfg.binds,
     echo |-> Or(cfg.echo, "False"),
     pool_size |-> Or(cfg.pool_size, None),
     commit |-> Or(cfg.commit, "False"),
     unu |-> Or(cfg.unu, None)]

\* The values the application may write to a key of app.config later on.
ConfigValues(k) ==
    CASE k = "uri" -> URIs
      [] k = "binds" -> BindMaps
      [] k = "echo" -> {"False", "True"}
      [] k = "pool_size" -> {None, "0"}
      [] k = "commit" -> {"False", "True"}
      [] k = "unu" -> {None, "False", "True"}

EngineKeys == {"uri", "binds", "echo", "pool_size"}
RaceKeys == {"echo", "pool_size"}
SessionKeys == {"commit", "pool_size"}

\* The outcome of a call: the handle returned or the error raised; how is
\* "cached", "built" or "raised"; overlap tells that the call started while
\* another call was in progress (history).
NoRet == [engine |-> 0, err |-> None, how |-> "none", overlap |-> FALSE]
NoSeen == [b \in BindKeys |-> [pair |-> <<>>, handle |-> 0]]

vars == <<config, stateReg, states, conns, engines, engineLock, changes,
          pc, tbind, tstate, tconn, tpair, overlap, ret, seen,
          registry, sessions, db, requests, rpc, rid, handlerExc, caught, hookExc,
          hookLog, hookCommit, lastGot, lastGone,
          use_native_unicode, asked, tables, schema, out>>

threadVars == <<pc, tbind, tstate, tconn, tpair, overlap, ret>>

sessionVars == <<registry, sessions, db, requests, rpc, rid, handlerExc, caught, hookExc,
                 hookLog, hookCommit, lastGot, lastGone>>

apiVars == <<use_native_unicode, asked, tables, schema, out>>

\* The outcome of a call: the operation and its argument, the error raised or
\* None, and the value returned: a handle (engine), a set of tables (list), a
\* mapping from tables to handles (map), or the schema operations performed
\* (runs: the bind, its handle and the tables, in order).
NoOut == [op |-> "none", arg |-> <<>>, err |-> None, engine |-> 0, list |-> {},
          map |-> <<>>, runs |-> <<>>]

\* SQLAlchemy.__init__: the adapter is constructed with use_native_unicode
\* among unicodes, for an application whose configuration is among configs and
\* whose declared tables are among declared.
InitFrom(configs, unicodes, declared) ==
    /\ config \in configs
    /\ stateReg = 0
    /\ states = <<>>
    /\ conns = <<>>
    /\ engines = <<>>
    /\ engineLock = NoThread
    /\ changes = 0
    /\ pc = [t \in Threads |-> "idle"]
    /\ tbind = [t \in Threads |-> None]
    /\ tstate = [t \in Threads |-> 0]
    /\ tconn = [t \in Threads |-> 0]
    /\ tpair = [t \in Threads |-> <<>>]
    /\ overlap = [t \in Threads |-> FALSE]
    /\ ret = [t \in Threads |-> NoRet]
    /\ seen = <<>>
    /\ registry = [k \in ScopeKeys |-> 0]
    /\ sessions = <<>>
    /\ db = {}
    /\ requests = 0
    /\ rpc = [t \in Tasks |-> "idle"]
    /\ rid = [t \in Tasks |-> 0]
    /\ handlerExc = [t \in Tasks |-> None]
    /\ caught = [t \in Tasks |-> None]
    /\ hookExc = [t \in Tasks |-> None]
    /\ hookLog = [t \in Tasks |-> <<>>]
    /\ hookCommit = [t \in Tasks |-> None]
    /\ lastGot = [t \in Tasks |-> 0]
    /\ lastGone = [t \in Tasks |-> 0]
    /\ use_native_unicode \in unicodes
    /\ asked = config
    /\ tables \in declared
    /\ schema = {}
    /\ out = NoOut

\* SQLAlchemy.__init__ with its default arguments, no table declared yet.
Init == InitFrom(UserConfigs, {"True"}, {<<>>})

\* SQLAlchemy.init_app: defaults the configuration and stores a new
\* _SQLAlchemyState in app.extensions (replacing any earlier one).
InitApp(max) ==
    /\ Len(states) < max
    /\ config' = Defaulted(config)
    /\ states' = Append(states, [b \in BindKeys |-> 0])
    /\ seen' = Append(seen, NoSeen)
    /\ stateReg' = Len(states) + 1
    /\ asked' = config
    /\ UNCHANGED <<conns, engines, engineLock, changes>>
    /\ UNCHANGED <<threadVars, sessionVars>>
    /\ UNCHANGED <<use_native_unicode, tables, schema, out>>

\* The application writes key k of app.config after init_app.
SetConfig(k, max) ==
    /\ stateReg # 0
    /\ changes < max
    /\ \E v \in ConfigValues(k) :
          /\ v # config[k]
          /\ config' = [config EXCEPT ![k] = v]
    /\ changes' = changes + 1
    /\ UNCHANGED <<stateReg, states, conns, engines, engineLock, seen>>
    /\ UNCHANGED <<threadVars, sessionVars, apiVars>>

\* --------------------------------------------- SQLAlchemy.get_engine (threads)

\* A lock that excludes nobody.
EngineLockOpen == TRUE

\* `with self._engine_lock:` may be entered.
EngineLockFree == engineLock = NoThread

\* `with self._lock:` of connector c may be entered.
ConnLockFree(c) == conns[c].lock = NoThread

\* A lock that stays held when the block is left by an exception.
ReleaseOnReturn(holder, th, err) == IF holder = th /\ err = None THEN NoThread ELSE holder

\* Leaving a `with lock:` block, by return or by exception, releases the lock.
Release(holder, th, err) == IF holder = th THEN NoThread ELSE holder

\* A call of thread th ends, by return or by exception: both `with` blocks are
\* left and the outcome reaches the caller.
Finish(th, cs, pair, engine, err, how) ==
    /\ engineLock' = Release(engineLock, th, err)
    /\ conns' = [c \in DOMAIN cs |-> [cs[c] EXCEPT !.lock = Release(@, th, err)]]
    /\ ret' = [ret EXCEPT ![th] =
                 [engine |-> engine, err |-> err, how |-> how, overlap |-> overlap[th]]]
    /\ overlap' = [overlap EXCEPT ![th] = FALSE]
    /\ pc' = [pc EXCEPT ![th] = "idle"]
    /\ tconn' = [tconn EXCEPT ![th] = 0]
    /\ tpair' = [tpair EXCEPT ![th] = <<>>]
    /\ seen' = IF err = None
               THEN [seen EXCEPT ![tstate[th]][tbind[th]] =
                       [pair |-> pair, handle |-> engine]]
               ELSE seen

\* SQLAlchemy.get_engine, lines 246-247: get_app and get_state.
Call(th, b) ==
    /\ pc[th] = "idle"
    /\ tbind' = [tbind EXCEPT ![th] = b]
    /\ tstate' = [tstate EXCEPT ![th] = stateReg]
    /\ IF stateReg = 0
       THEN /\ \E e \in GetStateErrors :
                  ret' = [ret EXCEPT ![th] = [NoRet EXCEPT !.err = e, !.how = "raised"]]
            /\ overlap' = overlap
            /\ pc' = pc
       ELSE /\ ret' = [ret EXCEPT ![th] = NoRet]
            /\ overlap' = [overlap EXCEPT ![th] = \E o \in Threads \ {th} : pc[o] # "idle"]
            /\ pc' = [pc EXCEPT ![th] = "acquire"]
    /\ UNCHANGED <<config, stateReg, states, conns, engines, engineLock, changes, seen,
                   tconn, tpair>>
    /\ UNCHANGED <<sessionVars, apiVars>>

\* lines 249-250: enter the engine lock and look the connector up.
Acquire(th) ==
    /\ pc[th] = "acquire"
    /\ EngineLockFree
    /\ engineLock' = th
    /\ tconn' = [tconn EXCEPT ![th] = states[tstate[th]][tbind[th]]]
    /\ pc' = [pc EXCEPT ![th] = IF states[tstate[th]][tbind[th]] = 0 THEN "make" ELSE "resolve"]
    /\ UNCHANGED <<config, stateReg, states, conns, engines, changes, seen,
                   tbind, tstate, tpair, overlap, ret>>
    /\ UNCHANGED <<sessionVars, apiVars>>

\* lines 251-253: make the connector and register it.
Make(th) ==
    /\ pc[th] = "make"
    /\ conns' = Append(conns, NewConnector(tstate[th], tbind[th]))
    /\ states' = [states EXCEPT ![tstate[th]][tbind[th]] = Len(conns) + 1]
    /\ tconn' = [tconn EXCEPT ![th] = Len(conns) + 1]
    /\ pc' = [pc EXCEPT ![th] = "resolve"]
    /\ UNCHANGED <<config, stateReg, engines, engineLock, changes, seen,
                   tbind, tstate, tpair, overlap, ret>>
    /\ UNCHANGED <<sessionVars, apiVars>>

\* lines 109-113: enter the connector's lock and resolve the pair; fail on an
\* unknown bind, return the cached handle when the pair is the recorded one,
\* go on to construct otherwise.
Resolve(th) ==
    LET c == tconn[th]
        got == get_uri(config, conns[c].bind)
        pair == <<got.uri, config.echo>>
        locked == [conns EXCEPT ![c].lock = th]
    IN  /\ pc[th] = "resolve"
        /\ ConnLockFree(c)
        /\ IF got.err # None
           THEN Finish(th, locked, pair, 0, got.err, "raised")
           ELSE IF ConnectedFor(pair, conns[c].connected_for)
           THEN Finish(th, locked, pair, conns[c].engine, None, "cached")
           ELSE /\ tpair' = [tpair EXCEPT ![th] = pair]
                /\ pc' = [pc EXCEPT ![th] = "construct"]
                /\ conns' = locked
                /\ UNCHANGED <<ret, seen, engineLock, tconn, overlap>>
        /\ UNCHANGED <<config, stateReg, states, engines, changes, tbind, tstate>>
        /\ UNCHANGED <<sessionVars, apiVars>>

\* lines 114-122 (conn and pair of a handle are history: the connector that
\* built it and the pair it was built for): build the options, construct the pool handle and record it;
\* an incompatible option raises before anything is stored.
Construct(th) ==
    LET c == tconn[th]
        pair == tpair[th]
        built == EngineOptions(config, pair[1], pair[2])
        h == Len(engines) + 1
    IN  /\ pc[th] = "construct"
        /\ IF built.err # None
           THEN /\ Finish(th, conns, pair, 0, built.err, "raised")
                /\ UNCHANGED engines
           ELSE /\ engines' = Append(engines,
                      [url |-> pair[1], options |-> built.options, conn |-> c,
                       pair |-> pair])
                /\ Finish(th, [conns EXCEPT ![c].engine = h, ![c].connected_for = pair],
                          pair, h, None, "built")
        /\ UNCHANGED <<config, stateReg, states, changes, tbind, tstate>>
        /\ UNCHANGED <<sessionVars, apiVars>>

\* One caller: every sequence of init_app, configuration writes and
\* get_engine calls.
Callers == {"th1"}

InitEngine == Init /\ config.commit = None /\ config.pool_size = None

Next ==
    \/ InitApp(MaxInits)
    \/ \E k \in EngineKeys : SetConfig(k, MaxChanges)
    \/ \E th \in Callers, b \in BindArgs : Call(th, b)
    \/ \E th \in Callers : Acquire(th)
    \/ \E th \in Callers : Make(th)
    \/ \E th \in Callers : Resolve(th)
    \/ \E th \in Callers : Construct(th)

Spec == InitEngine /\ [][Next]_vars

\* Concurrent callers of an application initialised once.
InitOnce == InitApp(1)

NextThreads ==
    \/ InitOnce
    \/ \E k \in RaceKeys : SetConfig(k, MaxRaces)
    \/ \E th \in Threads, b \in BindArgs : Call(th, b)
    \/ \E th \in Threads : Acquire(th)
    \/ \E th \in Threads : Make(th)
    \/ \E th \in Threads : Resolve(th)
    \/ \E th \in Threads : Construct(th)

SpecThreads == InitEngine /\ [][NextThreads]_vars

\* A step of a call that has started.  A thread that is inside a `with` block
\* keeps running: the holder of a lock is never suspended for ever.
ThreadStep == \E th \in Threads : Acquire(th) \/ Make(th) \/ Resolve(th) \/ Construct(th)

SpecThreadsFair == SpecThreads /\ WF_vars(ThreadStep)

\* ------------------------------------------ SQLAlchemy.get_engine (one task)

\* The engine cache as one value.
Heap == [states |-> states, conns |-> conns, engines |-> engines]

\* SQLAlchemy.get_engine, lines 250-253: the connector of bind b is made and
\* registered if the entry has none.
WithConnector(hp, s, b) ==
    IF hp.states[s][b] = 0
    THEN [hp EXCEPT !.conns = Append(@, NewConnector(s, b)),
                    !.states[s][b] = Len(hp.conns) + 1]
    ELSE hp

\* _EngineConnector.get_engine, lines 114-122, for connector c and the options
\* built.
Build(hp, c, pair, built) ==
    IF built.err # None
    THEN [heap |-> hp, engine |-> 0, err |-> built.err]
    ELSE [heap |-> [hp EXCEPT
              !.engines = Append(@, [url |-> pair[1], options |-> built.options,
                                     conn |-> c, pair |-> pair]),
              !.conns[c].engine = Len(hp.engines) + 1,
              !.conns[c].connected_for = pair],
          engine |-> Len(hp.engines) + 1, err |-> None]

\* _EngineConnector.get_engine, lines 110-113, for connector c.
Connect(hp, cfg, c, got) ==
    IF got.err # None
    THEN [heap |-> hp, engine |-> 0, err |-> got.err]
    ELSE IF ConnectedFor(<<got.uri, cfg.echo>>, hp.conns[c].connected_for)
    THEN [heap |-> hp, engine |-> hp.conns[c].engine, err |-> None]
    ELSE Build(hp, c, <<got.uri, cfg.echo>>, EngineOptions(cfg, got.uri, cfg.echo))

\* The connector registered for bind b.
ConnectorOf(hp, s, b) == hp.states[s][b]

\* SQLAlchemy.get_engine and _EngineConnector.get_engine run by a task of the
\* event loop: there is no suspension point, so the call is one step and both
\* locks are free.
SAGetEngine(hp, cfg, s, b) ==
    Connect(WithConnector(hp, s, b), cfg,
            ConnectorOf(WithConnector(hp, s, b), s, b), get_uri(cfg, b))

\* get_engine for each bind of bs in turn, stopping at the first failure; got
\* maps each bind resolved to its handle.
RECURSIVE EnginesFor(_, _, _, _, _)
EnginesNext(r, cfg, s, bs, got) ==
    IF r.err # None
    THEN [heap |-> r.heap, err |-> r.err, got |-> got]
    ELSE EnginesFor(r.heap, cfg, s, Tail(bs),
                    [b \in BindKeys |-> IF b = Head(bs) THEN r.engine ELSE got[b]])

EnginesFor(hp, cfg, s, bs, got) ==
    IF bs = <<>>
    THEN [heap |-> hp, err |-> None, got |-> got]
    ELSE EnginesNext(SAGetEngine(hp, cfg, s, Head(bs)), cfg, s, bs, got)

\* An order of visit that leaves the primary bind for the end.
BindsFirst(cfg) == [i \in 1..Len(cfg.binds) |-> cfg.binds[i].name] \o <<None>>

\* SQLAlchemy.get_binds, line 274: primary first, then the configured binds.
BindOrder(cfg) == <<None>> \o [i \in 1..Len(cfg.binds) |-> cfg.binds[i].name]

\* ------------------------------------------------------ the scoped session

\* A scope function that tells no task from another (the library's default,
\* one scope per thread).
scopefunc_thread(t) == MainThread

\* create_scoped_session, line 154: the scope of a session is the current task.
scopefunc(t) == t

\* SignallingSession.__init__, lines 63-66, given the engines resolved.  task
\* is history: the task that constructed the session.
SessionOf(t, r) ==
    [heap |-> r.heap, err |-> r.err,
     session |-> [task |-> t, bind |-> r.got[None], binds |-> r.got,
                  pending |-> {}, closed |-> FALSE]]

\* SignallingSession.__init__: the default engine (db.engine), then the engine
\* of every bind (db.get_binds).
NewSession(t) ==
    SessionOf(t, EnginesFor(Heap, config, stateReg, <<None>> \o BindOrder(config),
                            [b \in BindKeys |-> 0]))

\* The scope k has no session: one is constructed and memoized, unless its
\* construction fails.
Memoize(k, made) ==
    IF made.err # None
    THEN [sid |-> 0, err |-> made.err, heap |-> made.heap,
          sessions |-> sessions, registry |-> registry]
    ELSE [sid |-> Len(sessions) + 1, err |-> None, heap |-> made.heap,
          sessions |-> Append(sessions, made.session),
          registry |-> [registry EXCEPT ![k] = Len(sessions) + 1]]

\* scoped_session.__call__ (and every proxied method): the session memoized for
\* the current scope, constructed first if there is none.
SessionCall(t) ==
    IF registry[scopefunc(t)] # 0
    THEN [sid |-> registry[scopefunc(t)], err |-> None, heap |-> Heap,
          sessions |-> sessions, registry |-> registry]
    ELSE Memoize(scopefunc(t), NewSession(t))

\* The effect of a session access on the engine cache.
SetHeap(hp) ==
    /\ states' = hp.states
    /\ conns' = hp.conns
    /\ engines' = hp.engines

\* A remove that closes the session and keeps it memoized.
registry_keep(reg, k) == reg

\* scoped_session.remove, called at line 197: the scope's entry is dropped.
registry_clear(reg, k) == [reg EXCEPT ![k] = 0]

\* ----------------------------------------------------------- the request

\* The framework starts serving a request in task t.
StartRequest(t) ==
    /\ stateReg # 0
    /\ rpc[t] \in {"idle", "done"}
    /\ requests < MaxRequests
    /\ requests' = requests + 1
    /\ rid' = [rid EXCEPT ![t] = requests + 1]
    /\ rpc' = [rpc EXCEPT ![t] = "handler"]
    /\ handlerExc' = [handlerExc EXCEPT ![t] = None]
    /\ caught' = [caught EXCEPT ![t] = None]
    /\ hookExc' = [hookExc EXCEPT ![t] = None]
    /\ hookLog' = [hookLog EXCEPT ![t] = <<>>]
    /\ hookCommit' = [hookCommit EXCEPT ![t] = None]
    /\ UNCHANGED <<config, stateReg, states, conns, engines, engineLock, changes, seen,
                   registry, sessions, db, lastGot, lastGone>>
    /\ UNCHANGED <<threadVars, apiVars>>

\* The handler uses db.session: modify = TRUE adds a pending modification of
\* this request.  A failure to construct the session is raised by the handler.
HandlerAccess(t, modify) ==
    /\ rpc[t] = "handler"
    /\ \E r \in {SessionCall(t)} :
        /\ SetHeap(r.heap)
        /\ registry' = r.registry
        /\ IF r.err # None
           THEN /\ handlerExc' = [handlerExc EXCEPT ![t] = r.err]
                /\ rpc' = [rpc EXCEPT ![t] = "hook"]
                /\ UNCHANGED <<sessions, lastGot>>
           ELSE /\ sessions' = IF modify
                               THEN [r.sessions EXCEPT ![r.sid].pending = @ \cup {rid[t]}]
                               ELSE r.sessions
                /\ lastGot' = [lastGot EXCEPT ![t] = r.sid]
                /\ UNCHANGED <<handlerExc, rpc>>
        /\ UNCHANGED <<config, stateReg, engineLock, changes, seen, db, requests, rid,
                       caught, hookExc, hookLog, hookCommit, lastGone>>
        /\ UNCHANGED <<threadVars, apiVars>>

\* The handler ends: it returns a response (exc = None) or raises, and the
\* framework then runs the response middleware on the response it sends.
HandlerEnd(t, exc) ==
    /\ rpc[t] = "handler"
    /\ handlerExc' = [handlerExc EXCEPT ![t] = exc]
    /\ rpc' = [rpc EXCEPT ![t] = "hook"]
    /\ UNCHANGED <<config, stateReg, states, conns, engines, engineLock, changes, seen,
                   registry, sessions, db, requests, rid, caught, hookExc, hookLog,
                   hookCommit, lastGot, lastGone>>
    /\ UNCHANGED <<threadVars, apiVars>>

\* A hook that commits whatever the configuration says.
CommitAlways(cfg) == TRUE

\* shutdown_session, line 191
CommitConfigured(cfg) == Truthy(cfg.commit)

\* shutdown_session, lines 190-192: commit when configured.  The commit
\* succeeds or fails as the database decides.
HookTry(t) ==
    /\ rpc[t] = "hook"
    /\ \E r \in {SessionCall(t)} :
        /\ hookCommit' = [hookCommit EXCEPT ![t] = config.commit]
        /\ IF ~CommitConfigured(config)
           THEN /\ rpc' = [rpc EXCEPT ![t] = "finally"]
                /\ UNCHANGED <<states, conns, engines, registry, sessions, db, caught,
                               hookExc, hookLog, lastGot>>
           ELSE /\ hookLog' = [hookLog EXCEPT ![t] = Append(@, "commit")]
                /\ SetHeap(r.heap)
                /\ registry' = r.registry
                /\ IF r.err # None
                   THEN /\ caught' = [caught EXCEPT ![t] = r.err]
                        /\ hookExc' = [hookExc EXCEPT ![t] = r.err]
                        /\ rpc' = [rpc EXCEPT ![t] = "except"]
                        /\ UNCHANGED <<sessions, db, lastGot>>
                   ELSE /\ lastGot' = [lastGot EXCEPT ![t] = r.sid]
                        /\ \E ok \in BOOLEAN :
                              IF ok
                              THEN /\ db' = db \cup r.sessions[r.sid].pending
                                   /\ sessions' = [r.sessions EXCEPT ![r.sid].pending = {}]
                                   /\ rpc' = [rpc EXCEPT ![t] = "finally"]
                                   /\ UNCHANGED <<caught, hookExc>>
                              ELSE /\ sessions' = r.sessions
                                   /\ caught' = [caught EXCEPT ![t] = "CommitError"]
                                   /\ hookExc' = [hookExc EXCEPT ![t] = "CommitError"]
                                   /\ rpc' = [rpc EXCEPT ![t] = "except"]
                                   /\ UNCHANGED db
        /\ UNCHANGED <<config, stateReg, engineLock, changes, seen, requests, rid,
                       handlerExc, lastGone>>
        /\ UNCHANGED <<threadVars, apiVars>>

\* shutdown_session, lines 193-195: roll back and re-raise.  A rollback that
\* fails raises its own exception in place of the one being handled.
HookExcept(t) ==
    /\ rpc[t] = "except"
    /\ \E r \in {SessionCall(t)} :
        /\ hookLog' = [hookLog EXCEPT ![t] = Append(@, "rollback")]
        /\ SetHeap(r.heap)
        /\ registry' = r.registry
        /\ IF r.err # None
           THEN /\ hookExc' = [hookExc EXCEPT ![t] = r.err]
                /\ UNCHANGED <<sessions, lastGot>>
           ELSE /\ lastGot' = [lastGot EXCEPT ![t] = r.sid]
                /\ \E ok \in BOOLEAN :
                      IF ok
                      THEN /\ sessions' = [r.sessions EXCEPT ![r.sid].pending = {}]
                           /\ UNCHANGED hookExc
                      ELSE /\ sessions' = r.sessions
                           /\ hookExc' = [hookExc EXCEPT ![t] = "RollbackError"]
        /\ rpc' = [rpc EXCEPT ![t] = "finally"]
        /\ UNCHANGED <<config, stateReg, engineLock, changes, seen, db, requests, rid,
                       handlerExc, caught, hookCommit, lastGone>>
        /\ UNCHANGED <<threadVars, apiVars>>

\* A hook that releases the session only when nothing was raised.
RemoveOnSuccess(exc) == exc = None

\* shutdown_session, lines 196-197: `finally` runs whatever was raised.
RemoveRuns(exc) == TRUE

\* shutdown_session, lines 196-197: remove() closes the scope's session, if
\* there is one, and drops it from the registry; the hook then returns or lets
\* the pending exception reach the framework.
HookFinally(t) ==
    LET k == scopefunc(t)
        sid == registry[k]
    IN  /\ rpc[t] = "finally"
        /\ IF RemoveRuns(hookExc[t])
           THEN /\ hookLog' = [hookLog EXCEPT ![t] = Append(@, "remove")]
                /\ sessions' = IF sid = 0 THEN sessions
                               ELSE [sessions EXCEPT ![sid].pending = {},
                                                     ![sid].closed = TRUE]
                /\ registry' = registry_clear(registry, k)
                /\ lastGot' = [lastGot EXCEPT ![t] = 0]
                /\ lastGone' = [lastGone EXCEPT ![t] = sid]
           ELSE UNCHANGED <<hookLog, sessions, registry, lastGot, lastGone>>
        /\ rpc' = [rpc EXCEPT ![t] = "done"]
        /\ UNCHANGED <<config, stateReg, states, conns, engines, engineLock, changes, seen,
                       db, requests, rid, handlerExc, caught, hookExc, hookCommit>>
        /\ UNCHANGED <<threadVars, apiVars>>

\* Requests served by the tasks of an application initialised once.
NextSession ==
    \/ InitOnce
    \/ \E k \in SessionKeys : SetConfig(k, MaxTweaks)
    \/ \E t \in Tasks : StartRequest(t)
    \/ \E t \in Tasks, modify \in BOOLEAN : HandlerAccess(t, modify)
    \/ \E t \in Tasks, exc \in {None, "HandlerError"} : HandlerEnd(t, exc)
    \/ \E t \in Tasks : HookTry(t)
    \/ \E t \in Tasks : HookExcept(t)
    \/ \E t \in Tasks : HookFinally(t)

\* The configuration handed to init_app carries no pool size here: the pool
\* size is written afterwards, while requests are served.
InitSession == Init /\ config.pool_size = None

SpecSession == InitSession /\ [][NextSession]_vars

\* ------------------------------------------- calls made outside a request

MaxSetups == 2     \* init_app calls (calls made outside a request)
MaxEdits == 1      \* configuration writes after init_app (calls made outside a request)

TableNames == {"users", "report"}

\* What the info of a declared table holds under 'bind_key': nothing (a table
\* declared without the key), None (_make_table, line 29) or a bind name.
Infos == {Unset, None, "reporting", "audit"}

\* Model.metadata.tables, as declared by the application.
TableChoices == UNION { [S -> Infos] : S \in SUBSET TableNames }

\* A lookup in which a table without the key belongs to no bind.
bind_key_strict(info) == info

\* get_tables_for_bind, line 268: table.info.get('bind_key')
bind_key(info) == IF info = Unset THEN None ELSE info

\* SQLAlchemy.get_tables_for_bind (the result as a set: the order of the
\* tables within a bind is that of the metadata).
get_tables_for_bind(bind) == { tb \in DOMAIN tables : bind_key(tables[tb]) = bind }

NoTables == [tb \in {} |-> None]

\* The mappings SQLALCHEMY_BINDS may hold: none, one bind, two binds in either
\* order of declaration.
DeclaredBinds ==
    {<<>>, <<[name |-> "reporting", uri |-> MemURI]>>,
     <<[name |-> "reporting", uri |-> FileURI], [name |-> "audit", uri |-> MemURI]>>,
     <<[name |-> "audit", uri |-> MemURI], [name |-> "reporting", uri |-> MemURI]>>}

\* The configuration an application may carry before init_app.
SetupConfigs ==
    [uri : {None}, binds : {<<>>, <<[name |-> "reporting", uri |-> MemURI]>>},
     echo : {None}, pool_size : {None, "0"}, commit : {None}, unu : {None, "False"}]

SetupKeys == {"pool_size", "unu"}

InitSetup == InitFrom(SetupConfigs, {"True", "False"}, {NoTables})

\* The configuration of an application that declares tables.
SchemaConfigs ==
    [uri : {None, FileURI}, binds : DeclaredBinds,
     echo : {None}, pool_size : {None}, commit : {None}, unu : {None}]

InitSchema == InitFrom(SchemaConfigs, {"True"}, TableChoices)

ApiTask == "task1"

\* The outcome of operation op with argument arg.
Outcome(op, arg) == [NoOut EXCEPT !.op = op, !.arg = arg]

\* SQLAlchemy.get_engine(app, bind) called from outside a request: one step,
\* nobody else holds a lock.
GetEngine(b) ==
    /\ IF stateReg = 0
       THEN /\ \E e \in GetStateErrors :
                  out' = [Outcome("get_engine", <<b>>) EXCEPT !.err = e]
            /\ UNCHANGED <<states, conns, engines>>
       ELSE \E r \in {SAGetEngine(Heap, config, stateReg, b)} :
               /\ SetHeap(r.heap)
               /\ out' = [Outcome("get_engine", <<b>>) EXCEPT !.err = r.err,
                                                              !.engine = r.engine]
    /\ UNCHANGED <<config, stateReg, engineLock, changes, seen>>
    /\ UNCHANGED <<threadVars, sessionVars>>
    /\ UNCHANGED <<use_native_unicode, asked, tables, schema>>

\* SQLAlchemy.get_tables_for_bind(bind)
GetTablesForBind(b) ==
    /\ out' = [Outcome("get_tables_for_bind", <<b>>) EXCEPT !.list = get_tables_for_bind(b)]
    /\ UNCHANGED <<config, stateReg, states, conns, engines, engineLock, changes, seen>>
    /\ UNCHANGED <<threadVars, sessionVars>>
    /\ UNCHANGED <<use_native_unicode, asked, tables, schema>>

\* The binds of a sequence, as a set.
Range(bs) == { bs[i] : i \in 1..Len(bs) }

\* get_binds, lines 278-279: every table of the binds visited, mapped to the
\* handle of its bind.
TableMap(bs, got) ==
    [tb \in UNION { get_tables_for_bind(b) : b \in Range(bs) } |-> got[bind_key(tables[tb])]]

\* SQLAlchemy.get_binds(app)
GetBinds ==
    /\ IF stateReg = 0
       THEN /\ \E e \in GetStateErrors : out' = [Outcome("get_binds", <<>>) EXCEPT !.err = e]
            /\ UNCHANGED <<states, conns, engines>>
       ELSE \E r \in {EnginesFor(Heap, config, stateReg, BindOrder(config),
                                 [b \in BindKeys |-> 0])} :
               /\ SetHeap(r.heap)
               /\ out' = IF r.err # None
                         THEN [Outcome("get_binds", <<>>) EXCEPT !.err = r.err]
                         ELSE [Outcome("get_binds", <<>>) EXCEPT
                                  !.map = TableMap(BindOrder(config), r.got)]
    /\ UNCHANGED <<config, stateReg, engineLock, changes, seen>>
    /\ UNCHANGED <<threadVars, sessionVars>>
    /\ UNCHANGED <<use_native_unicode, asked, tables, schema>>

\* The database a pool handle reaches: an in-memory SQLite database belongs to
\* the handle's own static pool, a file is shared by every handle that opens it.
Store(hp, h) == IF hp.engines[h].url = MemURI THEN h ELSE 0

\* The bind selectors of create_all / drop_all: '__all__', one identifier (a
\* name or None), or a list of identifiers.
Selectors ==
    {[kind |-> "all", binds |-> <<>>]}
        \cup { [kind |-> "one", binds |-> <<b>>] : b \in BindKeys }
        \cup {[kind |-> "list", binds |-> <<"reporting", None>>]}

\* _execute_for_all_tables, lines 284-289
SelectedBinds(sel, cfg) == IF sel.kind = "all" THEN BindOrder(cfg) ELSE sel.binds

\* A schema operation on every declared table, whatever its bind.
OpTablesAll(bind) == DOMAIN tables

\* _execute_for_all_tables, lines 293-295: the tables handed to the operation.
OpTables(bind) == get_tables_for_bind(bind)

\* MetaData.create_all / drop_all (bind = the handle, tables = tbs) on the
\* database st.
Operate(operation, sch, st, tbs) ==
    IF operation = "create_all"
    THEN sch \cup { <<st, tb>> : tb \in tbs }
    ELSE sch \ { <<st, tb>> : tb \in tbs }

\* _execute_for_all_tables, lines 291-297: for each bind in turn, the tables of
\* the bind, its engine, the operation; a failing get_engine ends the loop.
RECURSIVE ExecuteFor(_, _, _, _, _, _, _)
ExecuteNext(r, cfg, s, bs, sch, runs, operation) ==
    IF r.err # None
    THEN [heap |-> r.heap, err |-> r.err, schema |-> sch, runs |-> runs]
    ELSE ExecuteFor(r.heap, cfg, s, Tail(bs),
                    Operate(operation, sch, Store(r.heap, r.engine), OpTables(Head(bs))),
                    Append(runs, [bind |-> Head(bs), engine |-> r.engine,
                                  tables |-> OpTables(Head(bs))]),
                    operation)

ExecuteFor(hp, cfg, s, bs, sch, runs, operation) ==
    IF bs = <<>>
    THEN [heap |-> hp, err |-> None, schema |-> sch, runs |-> runs]
    ELSE ExecuteNext(SAGetEngine(hp, cfg, s, Head(bs)), cfg, s, bs, sch, runs, operation)

\* SQLAlchemy.create_all / drop_all (bind = sel): _execute_for_all_tables.
ExecuteForAllTables(sel, operation) ==
    /\ IF stateReg = 0 /\ SelectedBinds(sel, config) # <<>>
       THEN /\ \E e \in GetStateErrors :
                  out' = [Outcome(operation, <<sel.kind>> \o sel.binds) EXCEPT !.err = e]
            /\ UNCHANGED <<states, conns, engines, schema>>
       ELSE \E r \in {ExecuteFor(Heap, config, stateReg, SelectedBinds(sel, config),
                                 schema, <<>>, operation)} :
               /\ SetHeap(r.heap)
               /\ schema' = r.schema
               /\ out' = [Outcome(operation, <<sel.kind>> \o sel.binds) EXCEPT
                             !.err = r.err, !.runs = r.runs]
    /\ UNCHANGED <<config, stateReg, engineLock, changes, seen>>
    /\ UNCHANGED <<threadVars, sessionVars>>
    /\ UNCHANGED <<use_native_unicode, asked, tables>>

\* ------------------------------------------------ SignallingSession.get_bind

NoMapper == "<no mapper>"

\* A lookup that answers with the handle the session was created with.
BoundEngineAtCreation(sess, hp, cfg, s, b) ==
    [heap |-> hp, engine |-> sess.binds[b], err |-> None]

\* get_bind, lines 73-74: the bind's engine, through get_state and get_engine.
BoundEngine(sess, hp, cfg, s, b) == SAGetEngine(hp, cfg, s, b)

\* get_bind, line 75: SessionBase.get_bind.  The table of the mapper is looked
\* up in the binds the session was constructed with (db.get_binds, where a
\* table without a bind key has the primary handle of that moment); without a
\* mapper the answer is the session's bind.
DefaultBind(sess, m) == IF m = NoMapper THEN sess.bind ELSE sess.binds[None]

\* SignallingSession.get_bind(mapper) on the session task t holds; m is the
\* table of the mapper, or NoMapper.
SessionGetBind(t, m) ==
    /\ rpc[t] = "handler"
    /\ lastGot[t] # 0
    /\ IF m # NoMapper /\ bind_key(tables[m]) # None
       THEN \E r \in {BoundEngine(sessions[lastGot[t]], Heap, config, stateReg,
                                  bind_key(tables[m]))} :
               /\ SetHeap(r.heap)
               /\ out' = [Outcome("get_bind", <<m>>) EXCEPT !.err = r.err,
                                                             !.engine = r.engine]
       ELSE /\ out' = [Outcome("get_bind", <<m>>) EXCEPT
                          !.engine = DefaultBind(sessions[lastGot[t]], m)]
            /\ UNCHANGED <<states, conns, engines>>
    /\ UNCHANGED <<config, stateReg, engineLock, changes, seen>>
    /\ UNCHANGED <<threadVars, sessionVars>>
    /\ UNCHANGED <<use_native_unicode, asked, tables, schema>>

\* The application sets itself up (more than once, perhaps), changes its
\* configuration and asks for engines.
NextSetup ==
    \/ InitApp(MaxSetups)
    \/ \E k \in SetupKeys : SetConfig(k, MaxEdits)
    \/ \E b \in BindArgs : GetEngine(b)

SpecSetup == InitSetup /\ [][NextSetup]_vars

\* The application declares its tables, sets itself up and runs the schema
\* operations and the table lookups.
NextSchema ==
    \/ InitOnce
    \/ \E b \in BindKeys : GetTablesForBind(b)
    \/ GetBinds
    \/ \E sel \in Selectors, operation \in {"create_all", "drop_all"} :
          ExecuteForAllTables(sel, operation)

SpecSchema == InitSchema /\ [][NextSchema]_vars

\* A request handler holds a session and asks it for the engine of a mapper
\* while the configuration changes.
NextRouting ==
    \/ InitOnce
    \/ \E k \in {"uri", "echo"} : SetConfig(k, MaxEdits)
    \/ StartRequest(ApiTask)
    \/ HandlerAccess(ApiTask, FALSE)
    \/ \E m \in DOMAIN tables \cup {NoMapper} : SessionGetBind(ApiTask, m)

SpecRouting == InitSchema /\ [][NextRouting]_vars

\* ------------------------------------------------------- claims: the engine cache

\* The call of thread th ends in this step, returning a handle.
Returns(th) == pc[th] # "idle" /\ pc'[th] = "idle" /\ ret'[th].err = None

\* The pair (uri, echo) the ending call of th resolved.
ResolvedPair(th) ==
    IF pc[th] = "construct"
    THEN tpair[th]
    ELSE <<get_uri(config, tbind[th]).uri, config.echo>>

\* The handles connector c has constructed.
BuiltBy(c, es) == { h \in DOMAIN es : es[h].conn = c }

Latest(hs) == CHOOSE h \in hs : \A g \in hs : g <= h

\* C1: of two consecutive get_engine calls for the same registry entry and bind
\* that both return a handle and resolve the same (uri, echo) pair, the second
\* returns the handle the first returned and constructs no pool handle.
C1_CachedHandleReused ==
    [][\A th \in Threads :
          LET last == seen[tstate[th]][tbind[th]]
          IN  (Returns(th) /\ last.handle # 0 /\ last.pair = ResolvedPair(th))
                  => /\ ret'[th].engine = last.handle
                     /\ engines' = engines]_vars

\* A caller got the cached handle back from a second call.
C1_Witness ==
    \E th \in Callers :
        /\ pc[th] = "idle"
        /\ ret[th].how = "cached"
        /\ ret[th].engine # 0
        /\ seen[tstate[th]][tbind[th]].handle = ret[th].engine

\* C2: a get_engine call that returns constructs a new pool handle if and only
\* if the pair it resolved differs from the pair recorded at the connector's
\* last construction; the new handle replaces the old one in the connector,
\* and a returned handle is always the latest one the connector constructed,
\* never an earlier one (also after the pair changed back).
C2_ReconstructedIffPairChanged ==
    [][/\ \A th \in Threads :
             Returns(th) =>
                LET c == tconn[th]
                    changed == ResolvedPair(th) # conns[c].connected_for
                    h == ret'[th].engine
                IN  /\ changed <=> (engines' # engines)
                    /\ changed => /\ h \notin DOMAIN engines
                                  /\ h \in DOMAIN engines'
                                  /\ engines'[h].pair = ResolvedPair(th)
                    /\ conns'[c].engine = h
                    /\ conns'[c].connected_for = ResolvedPair(th)
                    /\ h = Latest(BuiltBy(c, engines'))
       /\ engines' # engines => \E th \in Threads : Returns(th)]_vars

\* The configuration was changed and changed back, and the call after that
\* returned a third handle, not the first one.
C2_Witness ==
    \E th \in Callers, c \in DOMAIN conns :
        /\ pc[th] = "idle"
        /\ ret[th].how = "built"
        /\ ret[th].engine = conns[c].engine
        /\ Cardinality(BuiltBy(c, engines)) = 3
        /\ \E h \in BuiltBy(c, engines) :
              h # ret[th].engine /\ engines[h].pair = conns[c].connected_for

AtMostOneConnector ==
    \A s \in DOMAIN states, b \in BindKeys :
        Cardinality({ c \in DOMAIN conns : conns[c].state = s /\ conns[c].bind = b }) <= 1

\* No connector constructs twice in a row for the same pair.
NoRepeatedConstruction ==
    \A g, h \in DOMAIN engines :
        (/\ g < h
         /\ engines[g].conn = engines[h].conn
         /\ \A k \in (g + 1)..(h - 1) : engines[k].conn # engines[g].conn)
            => engines[g].pair # engines[h].pair

\* C3: under any interleaving of concurrent get_engine calls, at most one
\* connector is ever registered per registry entry and bind, a connector never
\* constructs two handles for the same unchanged pair, and every caller whose
\* call resolves the pair of the previous return receives that same handle.
C3_OneConnectorOneHandle ==
    /\ [](AtMostOneConnector /\ NoRepeatedConstruction)
    /\ [][\A th \in Threads :
             LET last == seen[tstate[th]][tbind[th]]
             IN  (Returns(th) /\ last.handle # 0 /\ last.pair = ResolvedPair(th))
                     => ret'[th].engine = last.handle]_vars

\* Two overlapping calls for the same bind both returned the one handle that
\* was constructed.
C3_Witness ==
    \E t1, t2 \in Threads :
        /\ t1 # t2
        /\ pc[t1] = "idle" /\ pc[t2] = "idle"
        /\ tbind[t1] = tbind[t2] /\ tstate[t1] = tstate[t2]
        /\ ret[t1].how = "built" /\ ret[t2].how = "cached"
        /\ ret[t2].overlap
        /\ ret[t1].engine = ret[t2].engine
        /\ Len(engines) = 1

\* --------------------------------------------- claims: the scoped session

\* shutdown_session called remove() for task t in this step.
Removes(t) ==
    /\ Len(hookLog'[t]) = Len(hookLog[t]) + 1
    /\ hookLog'[t][Len(hookLog'[t])] = "remove"

\* C4: between two removes every session access of a task returns the same
\* session instance, and the instance a task gets is never one constructed for
\* (and so returned to) another task.
C4_OneSessionPerScope ==
    /\ [](\A t \in Tasks : lastGot[t] # 0 => sessions[lastGot[t]].task = t)
    /\ [][\A t \in Tasks :
             (lastGot[t] # 0 /\ ~Removes(t)) => lastGot'[t] = lastGot[t]]_vars

\* Two tasks are inside their handlers, each with its own session, and one of
\* them has accessed its session again and got the same instance.
C4_Witness ==
    \E t1, t2 \in Tasks :
        /\ t1 # t2
        /\ rpc[t1] = "handler" /\ rpc[t2] = "except"
        /\ lastGot[t1] # 0 /\ lastGot[t2] # 0
        /\ lastGot[t1] # lastGot[t2]
        /\ hookLog[t2] = <<"commit">>
        /\ sessions[lastGot[t2]].pending # {}

\* C5: remove() drops the session memoized for the scope, and the next access
\* under the same scope constructs a fresh instance, different from the one
\* removed.
C5_RemoveThenFresh ==
    [][\A t \in Tasks :
          /\ Removes(t) => registry'[scopefunc(t)] = 0
          /\ (lastGot[t] = 0 /\ lastGot'[t] # 0)
                => /\ lastGot'[t] = Len(sessions) + 1
                   /\ Len(sessions') = Len(sessions) + 1
                   /\ lastGot'[t] # lastGone[t]
                   /\ registry'[scopefunc(t)] = lastGot'[t]]_vars

\* A task whose session was removed has accessed the session again.
C5_Witness ==
    \E t \in Tasks :
        /\ lastGone[t] # 0
        /\ lastGot[t] # 0
        /\ lastGot[t] # lastGone[t]
        /\ sessions[lastGone[t]].closed

\* C6: once shutdown_session has run, whatever its outcome, no session is
\* memoized for the task's scope.
C6_HookAlwaysReleases ==
    \A t \in Tasks : rpc[t] = "done" => registry[scopefunc(t)] = 0

\* The hook ended by raising the failure of its rollback, and the session the
\* task had is gone.
C6_Witness ==
    \E t \in Tasks :
        /\ rpc[t] = "done"
        /\ hookExc[t] = "RollbackError"
        /\ lastGone[t] # 0
        /\ registry[scopefunc(t)] = 0

\* C7: when the commit of the hook fails, the hook rolls back, removes, and the
\* failure that reaches the framework is the original failure of the commit.
C7_OriginalFailureReraised ==
    \A t \in Tasks :
        (rpc[t] = "done" /\ caught[t] # None)
            => /\ hookLog[t] = <<"commit", "rollback", "remove">>
               /\ hookExc[t] = caught[t]

\* C8: with commit-on-response set, a request whose handler raised after
\* modifying the session ends with none of its modifications committed and
\* with its session removed.
C8_RaisingRequestRolledBack ==
    \A t \in Tasks :
        (rpc[t] = "done" /\ handlerExc[t] = "HandlerError" /\ Truthy(hookCommit[t]))
            => /\ rid[t] \notin db
               /\ registry[scopefunc(t)] = 0

\* The hook of task t reads the configuration in this step.
HookStarts(t) == rpc[t] = "hook" /\ rpc'[t] # "hook"

\* C9: the hook calls commit if and only if commit-on-response is configured;
\* when it is not, the hook commits nothing, never rolls back, raises nothing
\* and only removes the session.
C9_CommitIffConfigured ==
    /\ [][\A t \in Tasks :
             HookStarts(t) =>
                /\ (hookLog'[t] = <<"commit">>) <=> Truthy(config.commit)
                /\ ~Truthy(config.commit) => (db' = db /\ hookLog'[t] = <<>>)]_vars
    /\ [](\A t \in Tasks :
             (rpc[t] = "done" /\ ~Truthy(hookCommit[t]))
                => (hookLog[t] = <<"remove">> /\ hookExc[t] = None))

\* With commit-on-response not configured, a request that modified its session
\* ended: nothing was committed and the session was removed.
C9_Witness ==
    \E t \in Tasks :
        /\ rpc[t] = "done"
        /\ hookCommit[t] = "False"
        /\ lastGone[t] # 0
        /\ hookLog[t] = <<"remove">>
        /\ rid[t] \notin db

\* ------------------------------------- claims: setting up and asking for engines

\* This step is a call of operation op with argument arg made from outside a
\* request (every other step changes one of the variables named).
Called(op, arg) ==
    /\ out'.op = op
    /\ out'.arg = arg
    /\ UNCHANGED <<config, stateReg, rpc, registry, sessions>>

\* C11: for an application handed to init_app with an in-memory SQLite URI and
\* a pool size of zero, asking for the primary engine fails with the
\* incompatible-option error and constructs no pool handle.
C11_ZeroPoolRejected ==
    [][(/\ stateReg # 0
        /\ asked.pool_size = "0"
        /\ config.uri = MemURI
        /\ Called("get_engine", <<None>>))
            => (out'.err = OptionError /\ engines' = engines)]_vars

C13_EntryNeverReplaced ==
    [][stateReg # 0 =>
          /\ stateReg' = stateReg
          /\ \A b \in BindKeys :
                states[stateReg][b] # 0 => states'[stateReg'][b] = states[stateReg][b]]_vars

\* C14: get_engine (through get_state) for an application init_app never saw
\* fails, and the failing call registers no state entry, no connector and no
\* handle.
C14_UninitialisedRejected ==
    [][(stateReg = 0 /\ out' # out /\ out'.op = "get_engine")
          => /\ out'.err \in {NotRegistered, NoExtensions}
             /\ out'.engine = 0
             /\ stateReg' = 0
             /\ states' = <<>> /\ conns' = <<>> /\ engines' = <<>>]_vars

\* The engine was asked for before init_app: the call failed and nothing is
\* registered.
C14_Witness ==
    /\ stateReg = 0
    /\ out.op = "get_engine"
    /\ out.err = NotRegistered
    /\ states = <<>> /\ conns = <<>> /\ engines = <<>>

\* C18: a pool handle constructed for an application that was handed to
\* init_app with native unicode disabled, or through an adapter constructed
\* with native unicode disabled, and that has not enabled it since, is
\* constructed with use_native_unicode = False.
C18_NativeUnicodeDisabled ==
    [][(/\ stateReg # 0
        /\ engines' # engines
        /\ (use_native_unicode = "False" \/ asked.unu = "False")
        /\ config.unu # "True")
            => engines'[Len(engines')].options.use_native_unicode = "False"]_vars

\* ------------------------------------------- claims: tables and their binds

\* The bind that owns table tb: its bind attribute, None when it has none.
OwnerOf(tb) == IF tables[tb] \in {Unset, None} THEN None ELSE tables[tb]

Owned(b) == { tb \in DOMAIN tables : OwnerOf(tb) = b }

\* The handle get_engine yields for bind b after this step.
CurrentEngine(b) == conns'[states'[stateReg][b]].engine

\* The place of a bind in the order of visit: the primary, then the names of
\* SQLALCHEMY_BINDS as declared.
Place(b) ==
    IF b = None THEN 0 ELSE CHOOSE i \in 1..Len(config.binds) : config.binds[i].name = b

Configured == {None} \cup BindNames(config.binds)

\* The binds a selector stands for, from the argument of the call.
SelectedBy(arg) == IF arg[1] = "all" THEN BindOrder(config) ELSE Tail(arg)

\* C15: create_all / drop_all runs, for each bind the selector stands for and
\* in that order, against the handle get_engine yields for the bind and on
\* exactly the tables the bind owns; the tables that come to exist or cease
\* to exist are those, in the databases of those handles; and no table ever
\* exists in the in-memory database of a handle built for another bind.
C15_SchemaOperationPerBind ==
    /\ [][\A sel \in Selectors, operation \in {"create_all", "drop_all"} :
             (/\ stateReg # 0
              /\ Called(operation, <<sel.kind>> \o sel.binds)
              /\ out'.err = None)
                 => LET bs == SelectedBy(out'.arg)
                        touched == UNION { { <<Store(Heap', CurrentEngine(b)), tb>> :
                                                tb \in Owned(b) } : b \in Range(bs) }
                    IN  /\ Len(out'.runs) = Len(bs)
                        /\ \A i \in 1..Len(bs) :
                              /\ out'.runs[i].bind = bs[i]
                              /\ out'.runs[i].engine = CurrentEngine(bs[i])
                              /\ out'.runs[i].tables = Owned(bs[i])
                        /\ schema' = IF operation = "create_all"
                                     THEN schema \cup touched
                                     ELSE schema \ touched]_vars
    /\ [](\A e \in schema :
             e[1] # 0 => conns[engines[e[1]].conn].bind = OwnerOf(e[2]))

\* The primary and 'reporting' both at sqlite:///:memory:, one table, tagged
\* 'reporting': after create_all('__all__') the table exists in the database
\* of the reporting handle and not in that of the primary handle.
C15_Witness ==
    /\ stateReg # 0
    /\ config.uri = MemURI
    /\ config.binds = <<[name |-> "reporting", uri |-> MemURI]>>
    /\ DOMAIN tables = {"report"} /\ tables["report"] = "reporting"
    /\ out.op = "create_all" /\ out.arg = <<"all">> /\ out.err = None
    /\ Len(out.runs) = 2
    /\ out.runs[1].tables = {} /\ out.runs[2].tables = {"report"}
    /\ out.runs[1].engine # out.runs[2].engine
    /\ <<out.runs[2].engine, "report">> \in schema
    /\ <<out.runs[1].engine, "report">> \notin schema

\* C16: get_binds returns a mapping whose keys are exactly the declared tables
\* owned by the primary bind or by a bind of SQLALCHEMY_BINDS, each mapped to
\* the handle get_engine yields for the table's bind; the binds are visited
\* primary first and then in the order of declaration, so handles that the
\* call itself constructs are constructed in that order.
C16_GetBindsMapsTables ==
    [][(stateReg # 0 /\ Called("get_binds", <<>>) /\ out'.err = None)
          => /\ DOMAIN out'.map = { tb \in DOMAIN tables : OwnerOf(tb) \in Configured }
             /\ \A tb \in DOMAIN out'.map :
                   /\ out'.map[tb] = CurrentEngine(OwnerOf(tb))
                   /\ out'.map[tb] # 0
                   /\ engines'[out'.map[tb]].pair =
                         <<get_uri(config, OwnerOf(tb)).uri, config.echo>>
             /\ \A b1, b2 \in Configured :
                   (/\ Place(b1) < Place(b2)
                    /\ CurrentEngine(b1) \notin DOMAIN engines
                    /\ CurrentEngine(b2) \notin DOMAIN engines)
                       => CurrentEngine(b1) < CurrentEngine(b2)]_vars

\* With 'audit' declared before 'reporting' and a table of each, the first
\* get_binds constructed the primary, audit and reporting handles in that
\* order and mapped each table to the handle of its bind.
C16_Witness ==
    /\ stateReg # 0
    /\ Len(config.binds) = 2 /\ config.binds[1].name = "audit"
    /\ out.op = "get_binds" /\ out.err = None
    /\ DOMAIN tables = {"users", "report"}
    /\ tables["users"] = "reporting" /\ tables["report"] = "audit"
    /\ Len(engines) = 3
    /\ DOMAIN out.map = {"users", "report"}
    /\ out.map["report"] = 2 /\ out.map["users"] = 3

\* C17: get_tables_for_bind(b) returns exactly the declared tables whose bind
\* attribute equals b, a table without the attribute counting as None; every
\* declared table is returned for exactly one bind identifier.
C17_TablesForBindExact ==
    /\ out.op = "get_tables_for_bind" =>
          out.list = { tb \in DOMAIN tables :
                          \/ tables[tb] = out.arg[1]
                          \/ (tables[tb] = Unset /\ out.arg[1] = None) }
    /\ \A tb \in DOMAIN tables :
          Cardinality({ b \in BindKeys : tb \in get_tables_for_bind(b) }) = 1

\* get_tables_for_bind(None) returned both a table declared without a bind
\* attribute and a table whose attribute is None.
C17_Witness ==
    /\ out.op = "get_tables_for_bind" /\ out.arg = <<None>>
    /\ DOMAIN tables = {"users", "report"}
    /\ tables["users"] = Unset /\ tables["report"] = None
    /\ out.list = {"users", "report"}

\* --------------------------------------------- claims: the session's get_bind

\* C19: get_bind for a mapper whose table has a bind key returns the handle
\* get_engine yields for that bind at the time of the call (the connector's
\* current handle, built for the current uri and echo), or raises what
\* get_engine raises when the bind is not configured; for a table without a
\* bind key, and without a mapper, it returns the primary handle the session
\* was constructed with and resolves nothing.
C19_SessionGetBind ==
    [][\A m \in TableNames \cup {NoMapper} :
          Called("get_bind", <<m>>) =>
             IF m \in DOMAIN tables /\ OwnerOf(m) # None
             THEN /\ (out'.err = None) <=> (OwnerOf(m) \in Configured)
                  /\ out'.err = None =>
                        /\ out'.engine = CurrentEngine(OwnerOf(m))
                        /\ out'.engine # 0
                        /\ engines'[out'.engine].pair =
                              <<get_uri(config, OwnerOf(m)).uri, config.echo>>
             ELSE /\ out'.err = None
                  /\ out'.engine = sessions[lastGot[ApiTask]].bind
                  /\ engines' = engines]_vars

\* The echo setting changed during the life of a session; get_bind for a
\* table tagged with a bind then returned the bind's new handle, not the one
\* the session was constructed with.
C19_Witness ==
    \E m \in DOMAIN tables :
        /\ lastGot[ApiTask] # 0
        /\ OwnerOf(m) # None
        /\ out.op = "get_bind" /\ out.arg = <<m>> /\ out.err = None
        /\ sessions[lastGot[ApiTask]].binds[OwnerOf(m)] # 0
        /\ out.engine # sessions[lastGot[ApiTask]].binds[OwnerOf(m)]
        /\ out.engine = conns[states[stateReg][OwnerOf(m)]].engine

\* ------------------------------------------------ claims: the connector's record

\* A connector has a handle iff it has a recorded pair, and the handle is one
\* it built for exactly that pair.
HandleMatchesRecord ==
    \A c \in DOMAIN conns :
        /\ (conns[c].engine = 0) <=> (conns[c].connected_for = <<>>)
        /\ conns[c].engine # 0 =>
              /\ conns[c].engine \in DOMAIN engines
              /\ engines[conns[c].engine].conn = c
              /\ engines[conns[c].engine].pair = conns[c].connected_for
              /\ engines[conns[c].engine].url = conns[c].connected_for[1]
              /\ engines[conns[c].engine].options.echo =
                    (IF conns[c].connected_for[2] = "True" THEN "True" ELSE Unset)

\* The call of thread th ends in this step by raising.
Fails(th) == pc[th] # "idle" /\ pc'[th] = "idle" /\ ret'[th].err # None

\* A lock is held only by a thread that is inside the block the lock guards.
LocksHeldInside ==
    /\ engineLock # NoThread => pc[engineLock] \in {"make", "resolve", "construct"}
    /\ \A c \in DOMAIN conns :
          conns[c].lock # NoThread => pc[conns[c].lock] = "construct"

\* C20: in every state a connector's handle and recorded pair are set together
\* and the handle was built for the recorded pair; a get_engine call that
\* fails changes no connector's handle or record and constructs nothing, and
\* leaves both locks released; a lock that is held is always released again,
\* so later calls complete.
C20_RecordConsistent ==
    /\ [](HandleMatchesRecord /\ LocksHeldInside)
    /\ [][\A th \in Threads :
             Fails(th) =>
                /\ engines' = engines
                /\ \A c \in DOMAIN conns :
                      /\ conns'[c].engine = conns[c].engine
                      /\ conns'[c].connected_for = conns[c].connected_for
                /\ engineLock' # th
                /\ \A c \in DOMAIN conns' : conns'[c].lock # th]_vars
    /\ (engineLock # NoThread) ~> (engineLock = NoThread)

\* A call failed on an invalid pool option, and an overlapping call for the
\* same bind returned the connector's handle; the connector still has that
\* handle and both locks are free.
C20_Witness ==
    \E t1, t2 \in Threads, c \in DOMAIN conns :
        /\ t1 # t2
        /\ pc[t1] = "idle" /\ pc[t2] = "idle"
        /\ ret[t1].how = "raised" /\ ret[t1].err = OptionError
        /\ tbind[t1] = conns[c].bind /\ tbind[t2] = conns[c].bind
        /\ ret[t2].overlap
        /\ ret[t2].err = None /\ ret[t2].engine = conns[c].engine
        /\ conns[c].engine # 0
        /\ engineLock = NoThread /\ conns[c].lock = NoThread
====
